---- MODULE Spec2Model ----
(***************************************************************************)
(* Model of the quorum-fullnode-py client: the FullNode facade, the        *)
(* validating FullNodeAPI layer with its membership guard, and the         *)
(* pass-through BaseAPI request builders.  The remote node is the          *)
(* environment: it holds the joined-groups list and answers every request. *)
(* A call of the API is one step; the requests it sent, the error it       *)
(* raised and the value it returned are recorded for the last call.        *)
(***************************************************************************)
EXTENDS Integers, Sequences, FiniteSets, TLC

\* ------------------------------------------------------------------ bounds
NumGroups == 2
MaxQueue == 3
NumTrx == 2

\* ------------------------------------------------------------ python values
None == "None"
Absent == "<absent>"
NoErr == "ok"

Truthy(x) == x /= None /\ x /= ""

\* python `a or b`
Or(a, b) == IF Truthy(a) THEN a ELSE b

Groups == {"g" \o ToString(i) : i \in 1..NumGroups}
\* the group_id argument of a call; "" and None are the falsy ids
GroupIdArgs == Groups \cup {"", None}

\* ------------------------------------------------- case-sensitive strings
\* A string whose letter case matters is a sequence of one-character strings.
LowerAlpha ==
    <<"a","b","c","d","e","f","g","h","i","j","k","l","m",
      "n","o","p","q","r","s","t","u","v","w","x","y","z">>
UpperAlpha ==
    <<"A","B","C","D","E","F","G","H","I","J","K","L","M",
      "N","O","P","Q","R","S","T","U","V","W","X","Y","Z">>

UpperChar(c) ==
    IF \E i \in DOMAIN LowerAlpha : LowerAlpha[i] = c
    THEN UpperAlpha[CHOOSE i \in DOMAIN LowerAlpha : LowerAlpha[i] = c]
    ELSE c
LowerChar(c) ==
    IF \E i \in DOMAIN UpperAlpha : UpperAlpha[i] = c
    THEN LowerAlpha[CHOOSE i \in DOMAIN UpperAlpha : UpperAlpha[i] = c]
    ELSE c
Upper(s) == [i \in DOMAIN s |-> UpperChar(s[i])]
Lower(s) == [i \in DOMAIN s |-> LowerChar(s[i])]

RECURSIVE Str(_)
Str(s) == IF s = <<>> THEN "" ELSE Head(s) \o Str(Tail(s))

\* fullnode.py TRX_TYPES, each as a sequence of characters
TRX_TYPES ==
    {<<"P","O","S","T">>,
     <<"A","N","N","O","U","N","C","E">>,
     <<"R","E","Q","_","B","L","O","C","K","_","F","O","R","W","A","R","D">>,
     <<"R","E","Q","_","B","L","O","C","K","_","B","A","C","K","W","A","R","D">>,
     <<"B","L","O","C","K","_","S","Y","N","C","E","D">>,
     <<"B","L","O","C","K","_","P","R","O","D","U","C","E","D">>,
     <<"A","S","K","_","P","E","E","R","I","D">>}

\* caller-supplied strings the calls are tried with
TrxTypeArgs ==
    {<<"p","o","s","t">>,
     <<"A","n","n","o","u","n","c","e">>,
     <<"b","o","g","u","s">>}
ModeArgs ==
    {<<"A","l","l","o","w">>,
     <<"d","n","y">>,
     <<"b","o","g","u","s">>}
ActionArgs ==
    {<<"a","d","d">>,
     <<"R","e","m","o","v","e">>,
     <<"b","o","g","u","s">>}
RoleArgs == {None, "", "node", "chain", "Node", "admin"}
PubKeys == {"A", "B"}
\* the group info the node may answer: each key present or missing
Infos == [user_pubkey : PubKeys \cup {Absent}, owner_pubkey : PubKeys \cup {Absent}]
\* the probe GET itself raises: a transport failure, or an answer with no .get
ProbeRaises == "<probe raises>"
\* "Result" of the node's answer to the announced-user probe
Statuses == {"APPROVED", "ANNOUNCED", Absent, ProbeRaises}

\* ------------------------------------------------------------------ state
VARIABLES
    facade_group_id,  \* FullNode._group_id
    api_group_id,     \* FullNodeAPI.group_id (BaseAPI.group_id)
    node_joined,      \* the node: ids of the groups it has joined
    op,               \* last call: the operation
    args,             \* last call: its arguments
    sent,             \* last call: the HTTP requests it sent, in order
    raised,           \* last call: the error it raised, NoErr if none
    returned,         \* last call: the value it returned
    resolved,         \* last call: the group id it resolved, None if none
    node_resp         \* last call: what the node answered (info, status, queue, req)

vars == <<facade_group_id, api_group_id, node_joined,
          op, args, sent, raised, returned, resolved, node_resp>>

\* --------------------------------------------------------------- requests
\* a request: method, path template, the group id in its path or payload,
\* the strings and the numbers of its payload
ReqN(method, path, gid, body, nums) ==
    [method |-> method, path |-> path, gid |-> gid, body |-> body, nums |-> nums]
Req(method, path, gid, body) == ReqN(method, path, gid, body, <<>>)

\* HttpRequest.get / HttpRequest.post through BaseAPI._get / BaseAPI._post
Get(path, gid, body) == Req("GET", path, gid, body)
Post(path, gid, body) == Req("POST", path, gid, body)

get_groups == Get("/api/v1/groups", None, <<>>)
get_group(gid) == Get("/api/v1/group/{group_id}", gid, <<>>)
get_seed(gid) == Get("/api/v1/group/{group_id}/seed", gid, <<>>)
get_block(gid) == Get("/api/v1/block/{group_id}/{block_id}", gid, <<>>)
post_startsync(gid) == Post("/api/v1/group/{group_id}/startsync", gid, <<>>)
get_trx_by_id(gid) == Get("/api/v1/trx/{group_id}/{trx_id}", gid, <<>>)
post_join_group(seed) == Post("/api/v2/group/join", seed, <<>>)
post_leave_group(gid) == Post("/api/v1/group/leave", gid, <<>>)
post_clear_group(gid) == Post("/api/v1/group/clear", gid, <<>>)
post_content_req(gid) == Post("/api/v1/group/{group_id}/content", gid, <<>>)

\* ----------------------------------------------------------------- errors
MissingGroupId == "group_id is required"
NotAJoinedGroup == "You are not in this group"
NotGroupOwner == "You are not the owner of this group"

\* The outcome of a guard or of a call: the error, the resolved group id,
\* the requests sent so far and the value returned.
Outcome(err, gid, reqs, ret) ==
    [err |-> err, gid |-> gid, sent |-> reqs, ret |-> ret]

\* ------------------------------------------------------- membership guard
\* FullNodeAPI._check_group_id_as_required
check_group_id_as_required(group_id) ==
    LET gid == Or(group_id, api_group_id)
    IN  IF ~Truthy(gid)
        THEN Outcome(MissingGroupId, gid, <<>>, None)
        ELSE Outcome(NoErr, gid, <<>>, None)

\* FullNodeAPI.groups_id: the ids of a fresh GET /api/v1/groups
groups_id == node_joined

\* a faulty variant: the joined check fetches the list and never looks the group up in it
check_group_joined_unchecked(group_id) ==
    LET r == check_group_id_as_required(group_id)
    IN  IF r.err /= NoErr THEN r
        ELSE Outcome(NoErr, r.gid, <<get_groups>>, None)

\* a faulty variant: the joined check consults the list without fetching it
check_group_joined_unfetched(group_id) ==
    LET r == check_group_id_as_required(group_id)
    IN  IF r.err /= NoErr THEN r
        ELSE IF r.gid \notin node_joined
        THEN Outcome(NotAJoinedGroup, r.gid, <<>>, None)
        ELSE Outcome(NoErr, r.gid, <<>>, None)

\* FullNodeAPI._check_group_joined_as_required
check_group_joined_as_required(group_id) ==
    LET r == check_group_id_as_required(group_id)
    IN  IF r.err /= NoErr THEN r
        ELSE IF r.gid \notin groups_id
        THEN Outcome(NotAJoinedGroup, r.gid, <<get_groups>>, None)
        ELSE Outcome(NoErr, r.gid, <<get_groups>>, None)

\* ------------------------------------------------------- recording a call
NoArgs == [group_id |-> None, action |-> None, mode |-> None,
           trx_type |-> None, trx_types |-> <<>>, role |-> None,
           nums |-> <<>>, trx_ids |-> <<>>, trx_id |-> None,
           producer_pubkey |-> <<>>, content |-> None, images |-> <<>>,
           post_id |-> None, name |-> None, chars |-> <<>>]
NoInfo == [user_pubkey |-> Absent, owner_pubkey |-> Absent]
NoReq == [StartFromEpoch |-> <<>>, TrxEpochTickLenInMs |-> <<>>,
          AgreementTickLenInMs |-> <<>>, AgreementTickCount |-> <<>>,
          ProducerPubkeyList |-> <<>>]
NoResp == [info |-> NoInfo, status |-> Absent, queue |-> <<>>, data |-> "none",
           req |-> NoReq, content |-> <<>>]

\* between calls nothing is recorded
Idle == op = "idle"

Record(o, a, r, resp) ==
    /\ op' = o
    /\ args' = a
    /\ sent' = r.sent
    /\ raised' = r.err
    /\ returned' = r.ret
    /\ resolved' = r.gid
    /\ node_resp' = resp

\* a guarded call that sends one request to its own endpoint after the guard
Then(r, req) ==
    IF r.err /= NoErr THEN r
    ELSE Outcome(NoErr, r.gid, Append(r.sent, req), "resp")

\* ------------------------------------------------------------ the facade
Init ==
    /\ facade_group_id = None
    /\ api_group_id = None
    /\ node_joined = {}
    /\ op = "idle"
    /\ args = NoArgs
    /\ sent = <<>>
    /\ raised = NoErr
    /\ returned = None
    /\ resolved = None
    /\ node_resp = NoResp

\* a faulty variant: the setter forgets the API layer
set_group_id_facade_only(g) ==
    /\ Idle
    /\ facade_group_id' = g
    /\ UNCHANGED <<api_group_id, node_joined>>
    /\ Record("set_group_id", [NoArgs EXCEPT !.group_id = g],
              Outcome(NoErr, g, <<>>, None), NoResp)

\* FullNode.group_id setter
set_group_id(g) ==
    /\ Idle
    /\ facade_group_id' = g
    /\ api_group_id' = g
    /\ UNCHANGED node_joined
    /\ Record("set_group_id", [NoArgs EXCEPT !.group_id = g],
              Outcome(NoErr, g, <<>>, None), NoResp)

\* ------------------------------------------- operations gated by IsJoined
\* FullNodeAPI.group_info
group_info(group_id) ==
    LET r == check_group_joined_as_required(group_id)
    IN  Then(r, get_group(r.gid))

\* FullNodeAPI.seed
seed(group_id) ==
    LET r == check_group_joined_as_required(group_id)
    IN  Then(r, get_seed(r.gid))

\* FullNodeAPI.get_block
get_block_op(group_id) ==
    LET r == check_group_joined_as_required(group_id)
    IN  Then(r, get_block(r.gid))

\* FullNodeAPI.startsync
startsync(group_id) ==
    LET r == check_group_joined_as_required(group_id)
    IN  Then(r, post_startsync(r.gid))

\* FullNodeAPI.get_trx
get_trx(group_id) ==
    LET r == check_group_joined_as_required(group_id)
    IN  Then(r, get_trx_by_id(r.gid))

\* FullNodeAPI.post_content
post_content(group_id) ==
    LET r == check_group_joined_as_required(group_id)
    IN  Then(r, post_content_req(r.gid))

Frame == UNCHANGED <<facade_group_id, api_group_id, node_joined>>

CallGroupInfo ==
    /\ Idle
    /\ \E g \in GroupIdArgs :
        /\ Record("group_info", [NoArgs EXCEPT !.group_id = g], group_info(g), NoResp)
        /\ Frame
CallSeed ==
    /\ Idle
    /\ \E g \in GroupIdArgs :
        /\ Record("seed", [NoArgs EXCEPT !.group_id = g], seed(g), NoResp)
        /\ Frame
CallGetBlock ==
    /\ Idle
    /\ \E g \in GroupIdArgs :
        /\ Record("get_block", [NoArgs EXCEPT !.group_id = g], get_block_op(g), NoResp)
        /\ Frame
CallStartsync ==
    /\ Idle
    /\ \E g \in GroupIdArgs :
        /\ Record("startsync", [NoArgs EXCEPT !.group_id = g], startsync(g), NoResp)
        /\ Frame
CallGetTrx ==
    /\ Idle
    /\ \E g \in GroupIdArgs :
        /\ Record("get_trx", [NoArgs EXCEPT !.group_id = g], get_trx(g), NoResp)
        /\ Frame
CallPostContent ==
    /\ Idle
    /\ \E g \in GroupIdArgs :
        /\ Record("post_content", [NoArgs EXCEPT !.group_id = g], post_content(g), NoResp)
        /\ Frame

\* ------------------------------------------------- joining and leaving
\* FullNodeAPI.join_group: the seed names the group; the node joins it
join_group(s) == Outcome(NoErr, s, <<post_join_group(s)>>, "resp")

CallJoinGroup ==
    /\ Idle
    /\ \E s \in Groups :
        /\ Record("join_group", NoArgs, join_group(s), NoResp)
        /\ node_joined' = node_joined \cup {s}
        /\ UNCHANGED <<facade_group_id, api_group_id>>

\* FullNodeAPI.leave_group
leave_group(group_id) ==
    LET r == check_group_id_as_required(group_id)
    IN  Then(r, post_leave_group(r.gid))

\* a faulty variant: leaving the selected group clears the selection
CallLeaveGroupClearing ==
    /\ Idle
    /\ \E g \in GroupIdArgs :
        LET r == leave_group(g)
        IN  /\ Record("leave_group", [NoArgs EXCEPT !.group_id = g], r, NoResp)
            /\ node_joined' = IF r.err = NoErr THEN node_joined \ {r.gid} ELSE node_joined
            /\ api_group_id' = IF r.err = NoErr /\ r.gid = api_group_id
                               THEN None ELSE api_group_id
            /\ UNCHANGED facade_group_id

CallLeaveGroup ==
    /\ Idle
    /\ \E g \in GroupIdArgs :
        LET r == leave_group(g)
        IN  /\ Record("leave_group", [NoArgs EXCEPT !.group_id = g], r, NoResp)
            /\ node_joined' = IF r.err = NoErr THEN node_joined \ {r.gid} ELSE node_joined
            /\ UNCHANGED <<facade_group_id, api_group_id>>

\* FullNodeAPI.clear_group
clear_group(group_id) ==
    LET r == check_group_id_as_required(group_id)
    IN  Then(r, post_clear_group(r.gid))

CallClearGroup ==
    /\ Idle
    /\ \E g \in GroupIdArgs :
        /\ Record("clear_group", [NoArgs EXCEPT !.group_id = g], clear_group(g), NoResp)
        /\ Frame

\* ------------------------------------------------------ local validation
BadTrxType == "must be one of TRX_TYPES"
BadMode == "mode must be one of ['deny','allow']"
BadAction == "action must be add or remove"
BadRole == "role must be one of ['node','chain']"

S_dny == <<"d","n","y">>
S_deny == <<"d","e","n","y">>
S_alw == <<"a","l","w">>
S_allow == <<"a","l","l","o","w">>
S_add == <<"a","d","d">>
S_remove == <<"r","e","m","o","v","e">>
S_post == <<"p","o","s","t">>

\* a faulty variant: the type is looked up as written, never uppercased
check_trx_type_as_written(trx_type) ==
    IF trx_type \notin TRX_TYPES
    THEN [err |-> BadTrxType, val |-> trx_type]
    ELSE [err |-> NoErr, val |-> trx_type]

\* fullnode.py _check_trx_type: [err, val]
check_trx_type(trx_type) ==
    LET t == Upper(trx_type)
    IN  IF t \notin TRX_TYPES
        THEN [err |-> BadTrxType, val |-> t]
        ELSE [err |-> NoErr, val |-> t]

\* a faulty variant: a mode that is no allow or deny word passes through
check_trx_mode_lenient(mode) ==
    IF Lower(mode) \in {S_dny, S_deny} THEN [err |-> NoErr, val |-> S_dny]
    ELSE IF Lower(mode) \in {S_alw, S_allow} THEN [err |-> NoErr, val |-> S_alw]
    ELSE [err |-> NoErr, val |-> Lower(mode)]

\* fullnode.py _check_trx_mode: [err, val]
check_trx_mode(mode) ==
    IF Lower(mode) \in {S_dny, S_deny} THEN [err |-> NoErr, val |-> S_dny]
    ELSE IF Lower(mode) \in {S_alw, S_allow} THEN [err |-> NoErr, val |-> S_alw]
    ELSE [err |-> BadMode, val |-> mode]

\* ------------------------------------------------------------ owner guard
\* a faulty variant: dict.get(key) without the default, so two missing keys compare equal
InfoGetNoDefault(info, key, default) ==
    IF info[key] = Absent THEN None ELSE info[key]

\* dict.get(key, default) on the group info
InfoGet(info, key, default) == IF info[key] = Absent THEN default ELSE info[key]

\* FullNodeAPI._check_group_owner_as_required; info is the node's answer to
\* GET /api/v1/group/{group_id}.  group_info runs the joined check again.
check_group_owner_as_required(group_id, info) ==
    LET r == check_group_joined_as_required(group_id)
    IN  IF r.err /= NoErr THEN r
        ELSE LET i == group_info(r.gid)
                 reqs == r.sent \o i.sent
             IN  IF i.err /= NoErr THEN Outcome(i.err, r.gid, reqs, None)
                 ELSE IF InfoGet(info, "user_pubkey", "user")
                          /= InfoGet(info, "owner_pubkey", "owner")
                 THEN Outcome(NotGroupOwner, r.gid, reqs, None)
                 ELSE Outcome(NoErr, r.gid, reqs, None)

Fail(r, err) == Outcome(err, r.gid, r.sent, None)

post_appconfig(gid, body) == Post("/api/v1/group/appconfig", gid, body)
post_chainconfig(gid, body) == Post("/api/v1/group/chainconfig", gid, body)
post_user(gid, body) == Post("/api/v1/group/user", gid, body)
get_announced_user_req(gid) ==
    Get("/api/v1/group/{group_id}/announced/user/{pubkey}", gid, <<>>)

\* ------------------------------------------ operations gated by IsOwner
\* a faulty variant: the action is validated only after the POST went out
update_appconfig_late_check(action, group_id, info) ==
    LET r == check_group_owner_as_required(group_id, info)
        p == Then(r, post_appconfig(r.gid, <<Str(Lower(action))>>))
    IN  IF r.err /= NoErr THEN r
        ELSE IF Lower(action) \notin {S_add, S_remove} THEN Fail(p, BadAction)
        ELSE p

\* FullNodeAPI.update_appconfig
update_appconfig(action, group_id, info) ==
    LET r == check_group_owner_as_required(group_id, info)
    IN  IF r.err /= NoErr THEN r
        ELSE IF Lower(action) \notin {S_add, S_remove} THEN Fail(r, BadAction)
        ELSE Then(r, post_appconfig(r.gid, <<Str(Lower(action))>>))

\* FullNodeAPI.set_trx_auth
set_trx_auth(trx_type, mode, group_id, info) ==
    LET r == check_group_owner_as_required(group_id, info)
        m == check_trx_mode(mode)
        t == check_trx_type(trx_type)
    IN  IF r.err /= NoErr THEN r
        ELSE IF m.err /= NoErr THEN Fail(r, m.err)
        ELSE IF t.err /= NoErr THEN Fail(r, t.err)
        ELSE Then(r, post_chainconfig(r.gid,
                 <<"set_trx_auth_mode", Str(t.val),
                   "follow_" \o Str(m.val) \o "_list">>))

\* FullNodeAPI._update_list; trx_types is a list of trx types, <<>> for None
update_list(mode, action, trx_types, group_id, info) ==
    LET r == check_group_owner_as_required(group_id, info)
        m == check_trx_mode(mode)
        types == IF trx_types = <<>> THEN <<S_post>> ELSE trx_types
        checked == [i \in DOMAIN types |-> check_trx_type(types[i])]
    IN  IF r.err /= NoErr THEN r
        ELSE IF m.err /= NoErr THEN Fail(r, m.err)
        ELSE IF \E i \in DOMAIN checked : checked[i].err /= NoErr
        THEN Fail(r, BadTrxType)
        ELSE IF action \notin {S_add, S_remove} THEN Fail(r, BadAction)
        ELSE Then(r, post_chainconfig(r.gid,
                 <<"upd_" \o Str(m.val) \o "_list", Str(action)>>
                 \o [i \in DOMAIN checked |-> Str(checked[i].val)]))

\* FullNodeAPI.add_allow_list / remove_allow_list / add_deny_list / remove_deny_list
add_allow_list(trx_types, group_id, info) ==
    update_list(S_alw, S_add, trx_types, group_id, info)
remove_allow_list(trx_types, group_id, info) ==
    update_list(S_alw, S_remove, trx_types, group_id, info)
add_deny_list(trx_types, group_id, info) ==
    update_list(S_dny, S_add, trx_types, group_id, info)
remove_deny_list(trx_types, group_id, info) ==
    update_list(S_dny, S_remove, trx_types, group_id, info)

\* a faulty variant: the approval asks for membership only, not ownership
approve_user_joined_only(action, group_id, info) ==
    LET r == check_group_joined_as_required(group_id)
    IN  IF r.err /= NoErr THEN r
        ELSE IF Lower(action) \notin {S_add, S_remove} THEN Fail(r, BadAction)
        ELSE Then(r, post_user(r.gid, <<Str(Lower(action))>>))

\* FullNodeAPI._approve_user
approve_user(action, group_id, info) ==
    LET r == check_group_owner_as_required(group_id, info)
    IN  IF r.err /= NoErr THEN r
        ELSE IF Lower(action) \notin {S_add, S_remove} THEN Fail(r, BadAction)
        ELSE Then(r, post_user(r.gid, <<Str(Lower(action))>>))

\* FullNodeAPI.get_announced_user
get_announced_user(group_id) ==
    LET r == check_group_id_as_required(group_id)
    IN  Then(r, get_announced_user_req(r.gid))

\* a faulty variant: what the probe raises reaches the caller
add_user_raising(group_id, info, status) ==
    LET probe == get_announced_user(None)
        a == approve_user(S_add, group_id, info)
    IN  IF probe.err /= NoErr THEN probe
        ELSE IF status = ProbeRaises THEN Fail(probe, ProbeRaises)
        ELSE IF status = "APPROVED"
        THEN Outcome(NoErr, probe.gid, probe.sent, "status")
        ELSE Outcome(a.err, a.gid, probe.sent \o a.sent, a.ret)

\* FullNodeAPI.add_user; status is the node's answer to the probe.  The probe
\* is called without a group id; whatever it raises is swallowed.
add_user(group_id, info, status) ==
    LET probe == get_announced_user(None)
        a == approve_user(S_add, group_id, info)
    IN  IF probe.err = NoErr /\ status /= ProbeRaises /\ status = "APPROVED"
        THEN Outcome(NoErr, probe.gid, probe.sent, "status")
        ELSE Outcome(a.err, a.gid, probe.sent \o a.sent, a.ret)

\* FullNodeAPI.remove_user
remove_user(group_id, info) == approve_user(S_remove, group_id, info)

TrxTypeLists ==
    {<<>>, << <<"P","o","s","t">>, <<"a","n","n","o","u","n","c","e">> >>,
     << <<"b","o","g","u","s">> >>}

CallUpdateAppconfig ==
    /\ Idle
    /\ \E g \in GroupIdArgs, i \in Infos, a \in ActionArgs :
        /\ Record("update_appconfig",
                  [NoArgs EXCEPT !.group_id = g, !.action = Str(a)],
                  update_appconfig(a, g, i), [NoResp EXCEPT !.info = i])
        /\ Frame
CallSetTrxAuth ==
    /\ Idle
    /\ \E g \in GroupIdArgs, i \in Infos, t \in TrxTypeArgs, m \in ModeArgs :
        /\ Record("set_trx_auth",
                  [NoArgs EXCEPT !.group_id = g, !.trx_type = Str(t), !.mode = Str(m)],
                  set_trx_auth(t, m, g, i), [NoResp EXCEPT !.info = i])
        /\ Frame
CallUpdateList ==
    /\ Idle
    /\ \E g \in GroupIdArgs, i \in Infos, m \in ModeArgs, a \in ActionArgs,
       ts \in TrxTypeLists :
        /\ Record("_update_list",
                  [NoArgs EXCEPT !.group_id = g, !.mode = Str(m), !.action = Str(a),
                                 !.trx_types = [k \in DOMAIN ts |-> Str(ts[k])]],
                  update_list(m, a, ts, g, i), [NoResp EXCEPT !.info = i])
        /\ Frame
CallAddAllowList ==
    /\ Idle
    /\ \E g \in GroupIdArgs, i \in Infos, ts \in TrxTypeLists :
        /\ Record("add_allow_list",
                  [NoArgs EXCEPT !.group_id = g,
                                 !.trx_types = [k \in DOMAIN ts |-> Str(ts[k])]],
                  add_allow_list(ts, g, i), [NoResp EXCEPT !.info = i])
        /\ Frame
CallRemoveAllowList ==
    /\ Idle
    /\ \E g \in GroupIdArgs, i \in Infos, ts \in TrxTypeLists :
        /\ Record("remove_allow_list",
                  [NoArgs EXCEPT !.group_id = g,
                                 !.trx_types = [k \in DOMAIN ts |-> Str(ts[k])]],
                  remove_allow_list(ts, g, i), [NoResp EXCEPT !.info = i])
        /\ Frame
CallAddDenyList ==
    /\ Idle
    /\ \E g \in GroupIdArgs, i \in Infos, ts \in TrxTypeLists :
        /\ Record("add_deny_list",
                  [NoArgs EXCEPT !.group_id = g,
                                 !.trx_types = [k \in DOMAIN ts |-> Str(ts[k])]],
                  add_deny_list(ts, g, i), [NoResp EXCEPT !.info = i])
        /\ Frame
CallRemoveDenyList ==
    /\ Idle
    /\ \E g \in GroupIdArgs, i \in Infos, ts \in TrxTypeLists :
        /\ Record("remove_deny_list",
                  [NoArgs EXCEPT !.group_id = g,
                                 !.trx_types = [k \in DOMAIN ts |-> Str(ts[k])]],
                  remove_deny_list(ts, g, i), [NoResp EXCEPT !.info = i])
        /\ Frame
CallApproveUser ==
    /\ Idle
    /\ \E g \in GroupIdArgs, i \in Infos, a \in ActionArgs :
        /\ Record("_approve_user",
                  [NoArgs EXCEPT !.group_id = g, !.action = Str(a)],
                  approve_user(a, g, i), [NoResp EXCEPT !.info = i])
        /\ Frame
CallAddUser ==
    /\ Idle
    /\ \E g \in GroupIdArgs, i \in Infos, st \in Statuses :
        /\ Record("add_user", [NoArgs EXCEPT !.group_id = g],
                  add_user(g, i, st), [NoResp EXCEPT !.info = i, !.status = st])
        /\ Frame
CallRemoveUser ==
    /\ Idle
    /\ \E g \in GroupIdArgs, i \in Infos :
        /\ Record("remove_user", [NoArgs EXCEPT !.group_id = g],
                  remove_user(g, i), [NoResp EXCEPT !.info = i])
        /\ Frame

\* ------------------------------------------------------------ auth tokens
post_create_token(gid, body) == Post("/app/api/v1/token", gid, body)
post_revoke_token(gid, body) == Post("/app/api/v1/token/revoke", gid, body)

\* FullNodeAPI.create_token
create_token(role, group_id) ==
    LET ro == Or(role, "node")
        r == check_group_id_as_required(group_id)
    IN  IF ro \notin {"node", "chain"} THEN Outcome(BadRole, None, <<>>, None)
        ELSE IF ro = "chain"
        THEN Outcome(NoErr, None, <<post_create_token(None, <<ro>>)>>, "resp")
        ELSE Then(r, post_create_token(r.gid, <<ro>>))

\* FullNodeAPI.revoke_token
revoke_token(role, group_id) ==
    LET ro == Or(role, "node")
        r == check_group_id_as_required(group_id)
    IN  IF ro \notin {"node", "chain"} THEN Outcome(BadRole, None, <<>>, None)
        ELSE IF ro = "chain"
        THEN Outcome(NoErr, None, <<post_revoke_token(None, <<ro>>)>>, "resp")
        ELSE Then(r, post_revoke_token(r.gid, <<ro>>))

\* BaseAPI._delete calls HttpRequest.delete; HttpRequest defines get and post only
NoDeleteMethod == "'HttpRequest' object has no attribute 'delete'"

\* FullNodeAPI.remove_token
remove_token(role, group_id) ==
    LET ro == Or(role, "node")
        r == check_group_id_as_required(group_id)
    IN  IF ro \notin {"node", "chain"} THEN Outcome(BadRole, None, <<>>, None)
        ELSE IF ro = "chain" THEN Outcome(NoDeleteMethod, None, <<>>, None)
        ELSE IF r.err /= NoErr THEN r
        ELSE Fail(r, NoDeleteMethod)

CallCreateToken ==
    /\ Idle
    /\ \E g \in GroupIdArgs, ro \in RoleArgs :
        /\ Record("create_token", [NoArgs EXCEPT !.group_id = g, !.role = ro],
                  create_token(ro, g), NoResp)
        /\ Frame
CallRevokeToken ==
    /\ Idle
    /\ \E g \in GroupIdArgs, ro \in RoleArgs :
        /\ Record("revoke_token", [NoArgs EXCEPT !.group_id = g, !.role = ro],
                  revoke_token(ro, g), NoResp)
        /\ Frame
CallRemoveToken ==
    /\ Idle
    /\ \E g \in GroupIdArgs, ro \in RoleArgs :
        /\ Record("remove_token", [NoArgs EXCEPT !.group_id = g, !.role = ro],
                  remove_token(ro, g), NoResp)
        /\ Frame

\* ------------------------------------------------------------- trx auth
get_trx_auth_req(gid, t) ==
    Get("/api/v1/group/{group_id}/trx/auth/{trx_type}", gid, <<t>>)

\* FullNodeAPI.get_trx_auth
get_trx_auth(trx_type, group_id) ==
    LET r == check_group_id_as_required(group_id)
        t == check_trx_type(trx_type)
    IN  IF r.err /= NoErr THEN r
        ELSE IF t.err /= NoErr THEN Fail(r, t.err)
        ELSE Then(r, get_trx_auth_req(r.gid, Str(t.val)))

CallGetTrxAuth ==
    /\ Idle
    /\ \E g \in GroupIdArgs, t \in TrxTypeArgs :
        /\ Record("get_trx_auth", [NoArgs EXCEPT !.group_id = g, !.trx_type = Str(t)],
                  get_trx_auth(t, g), NoResp)
        /\ Frame

\* -------------------------------------------------------------- producers
post_update_consensus(gid, body, nums) ==
    ReqN("POST", "/api/v1/group/updconsensus", gid, body, nums)

\* FullNodeAPI.add_producer: the payload carries the group_id argument as given
add_producer(group_id) ==
    Outcome(NoErr, group_id, <<post_update_consensus(group_id, <<"add">>, <<>>)>>, "resp")

\* FullNodeAPI.remove_producer
remove_producer(group_id) ==
    Outcome(NoErr, group_id, <<post_update_consensus(group_id, <<"remove">>, <<>>)>>, "resp")

CallAddProducer ==
    /\ Idle
    /\ \E g \in GroupIdArgs :
        /\ Record("add_producer", [NoArgs EXCEPT !.group_id = g], add_producer(g), NoResp)
        /\ Frame
CallRemoveProducer ==
    /\ Idle
    /\ \E g \in GroupIdArgs :
        /\ Record("remove_producer", [NoArgs EXCEPT !.group_id = g],
                  remove_producer(g), NoResp)
        /\ Frame

\* ---------------------------------------------------------- publish queue
TrxIds == {"t" \o ToString(i) : i \in 1..NumTrx}
QueueStates == {"FAIL", "SUCCESS"}
Entries == [State : QueueStates, TrxId : TrxIds]
SeqsUpTo(S, n) == UNION {[1..k -> S] : k \in 0..n}
Queues == SeqsUpTo(Entries, MaxQueue)
\* the publish-queue answer: "Data" a list, "Data" null, or a response of
\* other keys without "Data"
DataKinds == {"list", "null", "absent"}

NotIterable == "'NoneType' object is not iterable"
NotAnEntry == "string indices must be integers"

get_pubqueue(gid) == Get("/api/v1/group/{group_id}/pubqueue", gid, <<>>)
post_pubqueue_ack(ids) == Post("/api/v1/trx/ack", None, ids)

\* FullNodeAPI.pubqueue: resp.get("Data", resp)
pubqueue(group_id, data) ==
    LET r == check_group_id_as_required(group_id)
    IN  IF r.err /= NoErr THEN r
        ELSE Outcome(NoErr, r.gid, Append(r.sent, get_pubqueue(r.gid)),
                     CASE data = "list" -> "Data"
                       [] data = "null" -> None
                       [] OTHER -> "resp")

\* FullNodeAPI.ack
ack(trx_ids) ==
    IF trx_ids = <<>> THEN Outcome(NoErr, None, <<>>, "True")
    ELSE Outcome(NoErr, None, <<post_pubqueue_ack(trx_ids)>>, "resp")

\* a faulty variant: every entry of the queue is acknowledged, failed or not
AllIds(queue) == [i \in DOMAIN queue |-> queue[i].TrxId]

\* [i["Trx"]["TrxId"] for i in queue if i["State"] == "FAIL"]
FailedIds(queue) ==
    LET failed == SelectSeq(queue, LAMBDA e : e.State = "FAIL")
    IN  [i \in DOMAIN failed |-> failed[i].TrxId]

\* FullNodeAPI.autoack; data and queue are the node's publish-queue answer
autoack(group_id, data, queue) ==
    LET r == check_group_id_as_required(group_id)
        q == pubqueue(r.gid, data)
        a == ack(FailedIds(queue))
    IN  IF r.err /= NoErr THEN r
        ELSE IF q.err /= NoErr THEN q
        ELSE IF data = "null" THEN Fail(q, NotIterable)
        ELSE IF data = "absent" THEN Fail(q, NotAnEntry)
        ELSE Outcome(NoErr, r.gid, q.sent \o a.sent, a.ret)

PubqueueAnswers ==
    {[NoResp EXCEPT !.data = "list", !.queue = q] : q \in Queues}
    \cup {[NoResp EXCEPT !.data = d] : d \in {"null", "absent"}}

CallPubqueue ==
    /\ Idle
    /\ \E g \in GroupIdArgs, d \in DataKinds :
        /\ Record("pubqueue", [NoArgs EXCEPT !.group_id = g], pubqueue(g, d),
                  [NoResp EXCEPT !.data = d])
        /\ Frame
CallAck ==
    /\ Idle
    /\ \E ids \in SeqsUpTo(TrxIds, MaxQueue) :
        /\ Record("ack", [NoArgs EXCEPT !.trx_ids = ids], ack(ids), NoResp)
        /\ Frame
CallAutoack ==
    /\ Idle
    /\ \E g \in GroupIdArgs, n \in PubqueueAnswers :
        /\ Record("autoack", [NoArgs EXCEPT !.group_id = g],
                  autoack(g, n.data, n.queue), n)
        /\ Frame

\* the joined-groups answer: a list under "groups", "groups" null, no
\* "groups" key, or a null response
GroupsKinds == DataKinds \cup {"no response"}
EmptyList == "[]"

\* FullNodeAPI.groups: (super()._get_groups() or {}).get("groups") or []
groups(kind) ==
    Outcome(NoErr, None, <<get_groups>>,
            IF kind = "list" /\ node_joined /= {} THEN "groups" ELSE EmptyList)

CallGroups ==
    /\ Idle
    /\ \E k \in GroupsKinds :
        /\ Record("groups", NoArgs, groups(k), [NoResp EXCEPT !.data = k])
        /\ Frame

\* -------------------------------------------------------------- consensus
\* An optional integer is <<>> (None, or a missing key) or <<v>>.
OptTruthy(o) == o /= <<>> /\ o[1] /= 0
\* python `o or d` for an optional integer o and an integer d
OrInt(o, d) == IF OptTruthy(o) THEN o[1] ELSE d

TRX_EPOCH_TICK_MIN == 500
AGREEMENT_TICK_LENGTH_MIN == 1000
AGREEMENT_TICK_COUNT_MIN == 10

EpochTickTooSmall == "trx_epoch_tick should be greater than 500(ms)"
TickLengthTooSmall == "agreement_tick_length should be greater than 1000(ms)"
TickCountTooSmall == "agreement_tick_count should be greater than 10"

get_consensus_reqs(gid) ==
    <<Get("/api/v1/group/{group_id}/consensus/", gid, <<>>),
      Get("/api/v1/group/{group_id}/consensus/proof/{req_id}", gid, <<>>)>>

\* _exist of FullNodeAPI.update_consensus
consensus_exist(req) ==
    [start_from_epoch |-> OrInt(req.StartFromEpoch, 1),
     trx_epoch_tick |-> OrInt(req.TrxEpochTickLenInMs, TRX_EPOCH_TICK_MIN),
     agreement_tick_Length |-> OrInt(req.AgreementTickLenInMs, AGREEMENT_TICK_LENGTH_MIN),
     agreement_tick_count |-> OrInt(req.AgreementTickCount, AGREEMENT_TICK_COUNT_MIN),
     producer_pubkey |-> req.ProducerPubkeyList]

\* payload of FullNodeAPI.update_consensus; ov holds the caller's overrides
consensus_payload(ov, req) ==
    LET e == consensus_exist(req)
        sfe == IF ov.start_from_epoch = <<>> THEN <<1>> ELSE ov.start_from_epoch
    IN  [start_from_epoch |-> OrInt(sfe, e.start_from_epoch),
         trx_epoch_tick |-> OrInt(ov.trx_epoch_tick, e.trx_epoch_tick),
         agreement_tick_Length |-> OrInt(ov.agreement_tick_length, e.agreement_tick_Length),
         agreement_tick_count |-> OrInt(ov.agreement_tick_count, e.agreement_tick_count),
         producer_pubkey |-> IF ov.producer_pubkey /= <<>> THEN ov.producer_pubkey
                             ELSE e.producer_pubkey]

\* FullNodeAPI.update_consensus; req is the "Req" of the node's current
\* consensus proof request, NoReq when the node reports none
update_consensus(ov, group_id, req) ==
    LET r == check_group_id_as_required(group_id)
        reqs == get_consensus_reqs(r.gid)
        pl == consensus_payload(ov, req)
    IN  IF r.err /= NoErr THEN r
        ELSE IF OptTruthy(ov.trx_epoch_tick) /\ ov.trx_epoch_tick[1] < TRX_EPOCH_TICK_MIN
        THEN Outcome(EpochTickTooSmall, r.gid, reqs, None)
        ELSE IF OptTruthy(ov.agreement_tick_length)
                /\ ov.agreement_tick_length[1] < AGREEMENT_TICK_LENGTH_MIN
        THEN Outcome(TickLengthTooSmall, r.gid, reqs, None)
        ELSE IF OptTruthy(ov.agreement_tick_count)
                /\ ov.agreement_tick_count[1] < AGREEMENT_TICK_COUNT_MIN
        THEN Outcome(TickCountTooSmall, r.gid, reqs, None)
        ELSE IF pl = consensus_exist(req)
        THEN Outcome(NoErr, r.gid, reqs, "Nothing to update")
        ELSE Outcome(NoErr, r.gid,
                     Append(reqs, post_update_consensus(r.gid, pl.producer_pubkey,
                         <<pl.start_from_epoch, pl.trx_epoch_tick,
                           pl.agreement_tick_Length, pl.agreement_tick_count>>)),
                     "resp")

\* the overrides and the prior values the call is tried with
Overrides ==
    [start_from_epoch : {<<>>}, trx_epoch_tick : {<<>>, <<100>>, <<600>>},
     agreement_tick_length : {<<>>, <<900>>}, agreement_tick_count : {<<>>, <<5>>},
     producer_pubkey : {<<>>}]
PriorReqs ==
    {NoReq,
     [StartFromEpoch |-> <<3>>, TrxEpochTickLenInMs |-> <<600>>,
      AgreementTickLenInMs |-> <<1200>>, AgreementTickCount |-> <<12>>,
      ProducerPubkeyList |-> <<"A">>]}

OvNums(ov) ==
    <<ov.start_from_epoch, ov.trx_epoch_tick, ov.agreement_tick_length,
      ov.agreement_tick_count>>

CallUpdateConsensus ==
    /\ Idle
    /\ \E g \in GroupIdArgs, ov \in Overrides, req \in PriorReqs :
        /\ Record("update_consensus",
                  [NoArgs EXCEPT !.group_id = g, !.nums = OvNums(ov)],
                  update_consensus(ov, g, req), [NoResp EXCEPT !.req = req])
        /\ Frame

\* update_consensus with every kind of override: none, zero, negative, below,
\* at and above the minimum
AnyOverrides ==
    [start_from_epoch : {<<>>, <<0>>, <<3>>, <<5>>},
     trx_epoch_tick : {<<>>, <<-1>>, <<0>>, <<499>>, <<500>>, <<600>>},
     agreement_tick_length : {<<>>, <<0>>, <<999>>, <<1000>>, <<1200>>},
     agreement_tick_count : {<<>>, <<0>>, <<9>>, <<10>>, <<12>>},
     producer_pubkey : {<<>>, <<"B">>}]
\* the node reports no proof request, one that leaves the ticks out, a full
\* one, or one whose ticks were set elsewhere to less than this client allows
AnyPriorReqs ==
    PriorReqs
    \cup {[NoReq EXCEPT !.StartFromEpoch = <<1>>],
          [StartFromEpoch |-> <<1>>, TrxEpochTickLenInMs |-> <<300>>,
           AgreementTickLenInMs |-> <<800>>, AgreementTickCount |-> <<5>>,
           ProducerPubkeyList |-> <<"A">>]}

CallUpdateConsensusAny ==
    /\ Idle
    /\ \E g \in GroupIdArgs, ov \in AnyOverrides, req \in AnyPriorReqs :
        /\ Record("update_consensus",
                  [NoArgs EXCEPT !.group_id = g, !.nums = OvNums(ov),
                                 !.producer_pubkey = ov.producer_pubkey],
                  update_consensus(ov, g, req), [NoResp EXCEPT !.req = req])
        /\ Frame

\* ---------------------------------------------------------------- content
\* the longest content listing the node answers with
MaxContent == 2

\* "Data" of a transaction is a sequence of strings; an encoding puts its tag
\* in front.  B64Json(v) is base64.b64encode(json.dumps(v)).
B64Json(v) == <<"b64", "json">> \o v
NoData == <<Absent>>
\* well encoded, base64 of text that is no JSON, no base64 at all, no "Data"
DataVals == {B64Json(<<"hello">>), <<"b64", "hello">>, <<"hello">>, NoData}
ContentEntries == [TrxId : TrxIds, Data : DataVals]

\* base64.b64decode
b64decode(d) ==
    IF d /= <<>> /\ Head(d) = "b64" THEN [err |-> NoErr, val |-> Tail(d)]
    ELSE [err |-> "binascii.Error", val |-> d]
\* json.loads
json_loads(s) ==
    IF s /= <<>> /\ Head(s) = "json" THEN [err |-> NoErr, val |-> Tail(s)]
    ELSE [err |-> "JSONDecodeError", val |-> s]

\* a faulty variant: the undecoded "Data" is wiped when decoding fails
decode_or_wipe(trx) ==
    LET b == b64decode(trx.Data)
        j == json_loads(b.val)
    IN  IF trx.Data /= NoData /\ b.err = NoErr /\ j.err = NoErr
        THEN [trx EXCEPT !.Data = j.val]
        ELSE [trx EXCEPT !.Data = NoData]

\* the body of the loop of FullNodeAPI.get_content: whatever the decoding
\* raises (KeyError, binascii.Error, JSONDecodeError) is logged and dropped
decode_data(trx) ==
    LET b == b64decode(trx.Data)
        j == json_loads(b.val)
    IN  IF trx.Data = NoData THEN trx
        ELSE IF b.err /= NoErr THEN trx
        ELSE IF j.err /= NoErr THEN trx
        ELSE [trx EXCEPT !.Data = j.val]

\* json.dumps of a python bool
DumpsBool(b) == IF b THEN "true" ELSE "false"

\* params of FullNodeAPI.get_content as BaseAPI._get_content encodes them
content_query(p) ==
    <<"num=" \o ToString(p.num), "reverse=" \o DumpsBool(p.reverse)>>
    \o (IF Truthy(p.start_trx)
        THEN <<"start_trx=" \o p.start_trx,
               "include_start_trx=" \o DumpsBool(p.include_start_trx)>>
        ELSE <<>>)
    \o [i \in DOMAIN p.senders |-> "senders=" \o p.senders[i]]

get_content_req(gid, p) ==
    Get("/app/api/v1/group/{group_id}/content", gid, content_query(p))

\* FullNodeAPI.get_content; listing is the node's answer
get_content(p, group_id, listing) ==
    LET r == check_group_id_as_required(group_id)
    IN  IF r.err /= NoErr THEN r
        ELSE Outcome(NoErr, r.gid, Append(r.sent, get_content_req(r.gid, p)),
                     [i \in DOMAIN listing |-> decode_data(listing[i])])

\* the arguments trx() hands to get_content
TrxParams(trx_id) ==
    [start_trx |-> trx_id, num |-> 1, reverse |-> FALSE,
     include_start_trx |-> TRUE, senders |-> <<>>]

\* a faulty variant: the by-id endpoint is asked whatever the listing holds
trx_always_by_id(trx_id, group_id, listing) ==
    LET c == get_content(TrxParams(trx_id), group_id, listing)
        t == get_trx(group_id)
    IN  IF ~Truthy(trx_id) THEN Outcome(NoErr, None, <<>>, <<>>)
        ELSE IF c.err /= NoErr THEN c
        ELSE Outcome(t.err, t.gid, c.sent \o t.sent, t.ret)

\* FullNodeAPI.trx; {} is the empty function <<>>
trx(trx_id, group_id, listing) ==
    LET c == get_content(TrxParams(trx_id), group_id, listing)
        t == get_trx(group_id)
    IN  IF ~Truthy(trx_id) THEN Outcome(NoErr, None, <<>>, <<>>)
        ELSE IF c.err /= NoErr THEN c
        ELSE IF c.ret /= <<>> THEN Outcome(NoErr, c.gid, c.sent, c.ret[1])
        ELSE Outcome(t.err, t.gid, c.sent \o t.sent, t.ret)

\* the calls of get_content that are tried
ContentParams ==
    {[start_trx |-> None, num |-> 20, reverse |-> FALSE,
      include_start_trx |-> FALSE, senders |-> <<>>],
     [start_trx |-> "t1", num |-> 20, reverse |-> TRUE,
      include_start_trx |-> FALSE, senders |-> <<"A">>],
     [start_trx |-> "", num |-> 1, reverse |-> FALSE,
      include_start_trx |-> TRUE, senders |-> <<>>]}

CallGetContent ==
    /\ Idle
    /\ \E g \in GroupIdArgs, p \in ContentParams,
          l \in SeqsUpTo(ContentEntries, MaxContent) :
        /\ Record("get_content",
                  [NoArgs EXCEPT !.group_id = g, !.trx_id = p.start_trx],
                  get_content(p, g, l), [NoResp EXCEPT !.content = l])
        /\ Frame
\* the listing asked with num=1 holds one entry at most
CallTrx ==
    /\ Idle
    /\ \E g \in GroupIdArgs, t \in TrxIds \cup {"", None},
          l \in SeqsUpTo(ContentEntries, 1) :
        /\ Record("trx", [NoArgs EXCEPT !.group_id = g, !.trx_id = t],
                  trx(t, g, l), [NoResp EXCEPT !.content = l])
        /\ Frame

\* ------------------------------------------------------------------ posts
\* the most images a post is made with
MaxImages == 5
IMAGE_MAX_SIZE_KB == 200
IMAGE_MAX_NUM == 4

ContentEmpty == "content is empty"
ContentAndImagesEmpty == "content and images are empty"
ImageContentNull == "image content got null"
ZeroDivision == "integer division or modulo by zero"

Min(a, b) == IF a < b THEN a ELSE b
\* images[:n]
Slice(s, n) == SubSeq(s, 1, Min(Len(s), n))

\* an image is given as bytes (or a path, or a base64 string) of some size in
\* KB, as a dict that carries its content, or as a dict without content
ImageInputs ==
    [kind : {"bytes"}, kb : {30, 300}]
    \cup [kind : {"dict", "empty_dict"}, kb : {300}]

\* _zip_image: an image of less than kb KB is kept, a larger one is
\* shrunk until it is below kb
zip_image(img, kb) == IF img.kb < kb THEN img.kb ELSE kb - 1

\* one element of the result of _pack_images; a dict is not recompressed
PackedImage(img, kb) ==
    IF img.kind = "bytes"
    THEN [input |-> img, budget |-> <<kb>>, kb |-> zip_image(img, kb)]
    ELSE [input |-> img, budget |-> <<>>, kb |-> img.kb]

\* a faulty variant: every image given is packed
pack_all_images(images) ==
    LET kb == IMAGE_MAX_SIZE_KB \div Min(Len(images), IMAGE_MAX_NUM)
    IN  IF images = <<>> THEN [err |-> ZeroDivision, val |-> <<>>]
        ELSE IF \E i \in DOMAIN images : images[i].kind = "empty_dict"
        THEN [err |-> ImageContentNull, val |-> <<>>]
        ELSE [err |-> NoErr,
              val |-> [i \in DOMAIN images |-> PackedImage(images[i], kb)]]

\* _pack_images
pack_images(images) ==
    LET kb == IMAGE_MAX_SIZE_KB \div Min(Len(images), IMAGE_MAX_NUM)
        first == Slice(images, IMAGE_MAX_NUM)
    IN  IF images = <<>> THEN [err |-> ZeroDivision, val |-> <<>>]
        ELSE IF \E i \in DOMAIN first : first[i].kind = "empty_dict"
        THEN [err |-> ImageContentNull, val |-> <<>>]
        ELSE [err |-> NoErr,
              val |-> [i \in DOMAIN first |-> PackedImage(first[i], kb)]]

\* a python dict with the key k only if present holds
Key(present, k, v) == IF present THEN k :> v ELSE <<>>

\* a faulty variant: images make up for an empty content
pack_content_or_images(content, images, name, post_id, uuid) ==
    LET c == Or(content, "")
        imgs == pack_images(images)
    IN  IF ~(Truthy(c) \/ images /= <<>>)
        THEN [err |-> ContentAndImagesEmpty, val |-> <<>>]
        ELSE IF images /= <<>> /\ imgs.err /= NoErr THEN imgs
        ELSE [err |-> NoErr,
              val |-> [type |-> "Note", id |-> Or(post_id, uuid)]
                      @@ Key(Truthy(c), "content", c)
                      @@ Key(images /= <<>>, "image", imgs.val)
                      @@ Key(Truthy(name), "name", name)]

\* _pack_content; uuid is the value of str(uuid.uuid4()), and images is []
\* where the caller gave None
pack_content(content, images, name, post_id, uuid) ==
    LET c == Or(content, "")
        imgs == pack_images(images)
    IN  IF c = "" THEN [err |-> ContentEmpty, val |-> <<>>]
        ELSE IF ~(Truthy(c) \/ images /= <<>>)
        THEN [err |-> ContentAndImagesEmpty, val |-> <<>>]
        ELSE IF images /= <<>> /\ imgs.err /= NoErr THEN imgs
        ELSE [err |-> NoErr,
              val |-> [type |-> "Note", id |-> Or(post_id, uuid)]
                      @@ Key(Truthy(c), "content", c)
                      @@ Key(images /= <<>>, "image", imgs.val)
                      @@ Key(Truthy(name), "name", name)]

\* FeedData.new_post
new_post(content, images, post_id, name, uuid) ==
    LET o == pack_content(content, images, name, post_id, uuid)
    IN  IF o.err /= NoErr THEN Outcome(o.err, None, <<>>, None)
        ELSE Outcome(NoErr, None, <<>>, [type |-> "Create", object |-> o.val])

Uuids == {"u1", "u2"}

CallNewPost ==
    /\ Idle
    /\ \E c \in {None, "", "hello"}, imgs \in SeqsUpTo(ImageInputs, MaxImages),
          p \in {None, "", "p1"}, n \in {None, "n1"}, u \in Uuids :
        /\ Record("new_post",
                  [NoArgs EXCEPT !.content = c, !.images = imgs,
                                 !.post_id = p, !.name = n],
                  new_post(c, imgs, p, n, u), NoResp)
        /\ Frame
CallPackImages ==
    /\ Idle
    /\ \E imgs \in SeqsUpTo(ImageInputs, MaxImages) :
        /\ Record("pack_images", [NoArgs EXCEPT !.images = imgs],
                  LET r == pack_images(imgs)
                  IN  Outcome(r.err, None, <<>>, r.val),
                  NoResp)
        /\ Frame

\* ---------------------------------------------- the argument checks alone
\* every way of writing s in upper and lower case letters
CaseVariants(s) ==
    {[i \in DOMAIN s |-> IF i \in U THEN UpperChar(s[i]) ELSE LowerChar(s[i])] :
        U \in SUBSET DOMAIN s}

\* trx types and modes the checks are tried with: the case variants of
\* accepted and of rejected words, and near misses
TrxTypeInputs ==
    CaseVariants(S_post)
    \cup CaseVariants(<<"p","e","e","r">>)
    \cup {<<"a","n","n","o","u","n","c","e">>, <<"A","n","n","o","u","n","c","e">>,
          <<"a","N","N","O","U","N","C","e">>, <<"A","N","N","O","U","N","C","E">>,
          <<"a","s","k","_","P","e","e","r","I","d">>,
          <<"a","s","k","-","p","e","e","r","i","d">>}
    \cup {<<>>, <<"p","o","s","t","s">>, <<"p","o","s">>, <<" ","p","o","s","t">>}
ModeInputs ==
    CaseVariants(S_alw) \cup CaseVariants(S_allow)
    \cup CaseVariants(S_dny) \cup CaseVariants(S_deny)
    \cup CaseVariants(<<"d","e","n","i","e","d">>)
    \cup {<<>>, <<"a","l">>, <<"a","l","l","o","w","s">>, <<"a","l","w"," ">>,
          <<"f","o","l","l","o","w","_","a","l","w","_","l","i","s","t">>}

CallCheckTrxType ==
    /\ Idle
    /\ \E t \in TrxTypeInputs :
        /\ Record("_check_trx_type", [NoArgs EXCEPT !.chars = t],
                  LET r == check_trx_type(t)
                  IN  Outcome(r.err, None, <<>>, IF r.err = NoErr THEN r.val ELSE None),
                  NoResp)
        /\ Frame
CallCheckTrxMode ==
    /\ Idle
    /\ \E m \in ModeInputs :
        /\ Record("_check_trx_mode", [NoArgs EXCEPT !.chars = m],
                  LET r == check_trx_mode(m)
                  IN  Outcome(r.err, None, <<>>, IF r.err = NoErr THEN r.val ELSE None),
                  NoResp)
        /\ Frame
\* set_trx_auth with every mode, as the owner and as another user
CallSetTrxAuthAny ==
    /\ Idle
    /\ \E g \in GroupIdArgs, i \in {n \in Infos : n.owner_pubkey = "A"},
          t \in TrxTypeArgs, m \in ModeInputs :
        /\ Record("set_trx_auth",
                  [NoArgs EXCEPT !.group_id = g, !.trx_type = Str(t),
                                 !.mode = Str(m), !.chars = m],
                  set_trx_auth(t, m, g, i), [NoResp EXCEPT !.info = i])
        /\ Frame

\* ------------------------------------------------------ exception classes
\* the python exception class each error is raised as
ExcClass(err) ==
    CASE err = MissingGroupId -> "ParamValueError"
      [] err \in {NotAJoinedGroup, NotGroupOwner} -> "RumChainException"
      [] err \in {BadTrxType, BadMode, BadAction, BadRole} -> "ParamValueError"
      [] err \in {ContentEmpty, ContentAndImagesEmpty, ImageContentNull}
            -> "ParamValueError"
      [] err = ZeroDivision -> "ZeroDivisionError"
      [] err \in {EpochTickTooSmall, TickLengthTooSmall, TickCountTooSmall} -> "ValueError"
      [] err = NoDeleteMethod -> "AttributeError"
      [] err \in {NotIterable, NotAnEntry} -> "TypeError"
      [] OTHER -> "none"

\* the caller takes the result of the call; the next call starts afresh
Return ==
    /\ ~Idle
    /\ Record("idle", NoArgs, Outcome(NoErr, None, <<>>, None), NoResp)
    /\ Frame

Next ==
    \/ \E g \in GroupIdArgs : set_group_id(g)
    \/ CallGroupInfo
    \/ CallSeed
    \/ CallGetBlock
    \/ CallStartsync
    \/ CallGetTrx
    \/ CallPostContent
    \/ CallJoinGroup
    \/ CallLeaveGroup
    \/ CallClearGroup
    \/ CallUpdateAppconfig
    \/ CallSetTrxAuth
    \/ CallUpdateList
    \/ CallAddAllowList
    \/ CallRemoveAllowList
    \/ CallAddDenyList
    \/ CallRemoveDenyList
    \/ CallApproveUser
    \/ CallAddUser
    \/ CallRemoveUser
    \/ CallCreateToken
    \/ CallRevokeToken
    \/ CallRemoveToken
    \/ CallGetTrxAuth
    \/ CallAddProducer
    \/ CallRemoveProducer
    \/ CallGroups
    \/ CallPubqueue
    \/ CallAck
    \/ CallAutoack
    \/ CallUpdateConsensus
    \/ Return

Spec == Init /\ [][Next]_vars

\* get_content and trx on their own, with the group selection they depend on
NextContent ==
    \/ \E g \in GroupIdArgs : set_group_id(g)
    \/ CallJoinGroup
    \/ CallLeaveGroup
    \/ CallGetContent
    \/ CallTrx
    \/ Return

SpecContent == Init /\ [][NextContent]_vars

\* update_consensus on its own, with the group selection it depends on
NextConsensus ==
    \/ \E g \in GroupIdArgs : set_group_id(g)
    \/ CallUpdateConsensusAny
    \/ Return

SpecConsensus == Init /\ [][NextConsensus]_vars

\* the builders of types/data.py, which use no node and no group
NextPost ==
    \/ CallNewPost
    \/ CallPackImages
    \/ Return

SpecPost == Init /\ [][NextPost]_vars

\* the argument checks and set_trx_auth, with the group selection it needs
NextCheck ==
    \/ \E g \in GroupIdArgs : set_group_id(g)
    \/ CallJoinGroup
    \/ CallCheckTrxType
    \/ CallCheckTrxMode
    \/ CallSetTrxAuthAny
    \/ Return

SpecCheck == Init /\ [][NextCheck]_vars

\* ================================================================ claims
Range(q) == {q[i] : i \in DOMAIN q}

\* the operations that take a group_id and address that group
TokenOps == {"create_token", "revoke_token", "remove_token"}
JoinedOps == {"group_info", "seed", "get_block", "startsync", "get_trx"}
OwnerOps ==
    {"update_appconfig", "set_trx_auth", "_update_list", "add_allow_list",
     "remove_allow_list", "add_deny_list", "remove_deny_list", "_approve_user",
     "add_user", "remove_user"}
GroupScopedOps ==
    JoinedOps \cup OwnerOps
    \cup {"post_content", "leave_group", "clear_group", "get_trx_auth", "pubqueue",
          "autoack", "update_consensus", "add_producer", "remove_producer"}
GroupScopedCall ==
    \/ op \in GroupScopedOps
    \/ op \in TokenOps /\ Or(args.role, "node") = "node"

\* the endpoint an IsJoined-gated operation exists to request
OwnEndpoint(o, gid) ==
    CASE o = "group_info" -> get_group(gid)
      [] o = "seed" -> get_seed(gid)
      [] o = "get_block" -> get_block(gid)
      [] o = "startsync" -> post_startsync(gid)
      [] o = "get_trx" -> get_trx_by_id(gid)

\* the mutating endpoints of the owner-gated operations
OwnerPaths ==
    {"/api/v1/group/appconfig", "/api/v1/group/chainconfig", "/api/v1/group/user"}

IsOwnerOf(info) ==
    /\ info.user_pubkey /= Absent
    /\ info.owner_pubkey /= Absent
    /\ info.user_pubkey = info.owner_pubkey

GuardErrors == {MissingGroupId, NotAJoinedGroup, NotGroupOwner}
ValidationErrors ==
    {BadTrxType, BadMode, BadAction, BadRole,
     EpochTickTooSmall, TickLengthTooSmall, TickCountTooSmall}

\* C1 (as claimed): every call of a group-scoped operation resolves the
\* explicit group_id if it is non-empty and the current group otherwise, and
\* with both empty it fails with the missing-group-id ParamValueError having
\* sent no request.
C1_EveryGroupCallResolves ==
    GroupScopedCall =>
        LET want == Or(args.group_id, api_group_id)
        IN  IF Truthy(want)
            THEN /\ raised /= MissingGroupId
                 /\ resolved = want
            ELSE /\ raised = MissingGroupId
                 /\ ExcClass(raised) = "ParamValueError"
                 /\ sent = <<>>

\* C2: an IsJoined-gated operation on a resolved group g succeeds iff g is in
\* the node's joined-groups list, which the call fetches itself; otherwise it
\* raises the not-a-joined-group RumChainException and its own endpoint is
\* never requested.
C2_JoinedCheckIsFresh ==
    (op \in JoinedOps /\ raised /= MissingGroupId) =>
        /\ Len(sent) >= 1 /\ sent[1] = get_groups
        /\ (raised = NoErr) <=> (resolved \in node_joined)
        /\ raised = NoErr => sent = <<get_groups, OwnEndpoint(op, resolved)>>
        /\ raised /= NoErr =>
              /\ raised = NotAJoinedGroup
              /\ ExcClass(raised) = "RumChainException"
              /\ sent = <<get_groups>>

C2_Witness ==
    /\ op = "seed"
    /\ raised = NotAJoinedGroup
    /\ node_joined /= {}
    /\ sent = <<get_groups>>

\* C3: once the joined check has passed and the group info was fetched, the
\* owner check passes iff the info has user_pubkey and owner_pubkey both
\* present and equal; otherwise the not-group-owner RumChainException is raised.
C3_OwnerIffPubkeysEqual ==
    (op \in OwnerOps /\ get_group(resolved) \in Range(sent)) =>
        /\ (raised /= NotGroupOwner) <=> IsOwnerOf(node_resp.info)
        /\ raised = NotGroupOwner => ExcClass(raised) = "RumChainException"
        /\ raised \notin {MissingGroupId, NotAJoinedGroup}

C3_Witness ==
    /\ op = "update_appconfig"
    /\ raised = NotGroupOwner
    /\ node_resp.info.user_pubkey = Absent
    /\ node_resp.info.owner_pubkey = Absent

\* C4: a POST to appconfig, chainconfig or group/user is sent only after the
\* same call fetched the joined-groups list, found the group in it, fetched
\* the group info and found user_pubkey equal to owner_pubkey.
C4_OwnerGatedMutation ==
    \A i \in DOMAIN sent :
        (sent[i].method = "POST" /\ sent[i].path \in OwnerPaths) =>
            /\ op \in OwnerOps
            /\ sent[i].gid = resolved
            /\ resolved \in node_joined
            /\ IsOwnerOf(node_resp.info)
            /\ \E j, k \in 1..(i - 1) :
                  /\ j < k
                  /\ sent[j] = get_groups
                  /\ sent[k] = get_group(resolved)

C4_Witness ==
    /\ op = "add_user"
    /\ raised = NoErr
    /\ \E i \in DOMAIN sent : sent[i] = post_user(resolved, <<"add">>)

\* C5 (as claimed): post_content sends the content POST for every group id
\* that resolves, joined or not.
C5_PostContentNeedsOnlyGroupId ==
    (op = "post_content" /\ Truthy(Or(args.group_id, api_group_id))) =>
        /\ raised = NoErr
        /\ post_content_req(Or(args.group_id, api_group_id)) \in Range(sent)

\* C6 (as claimed): an operation that fails with a membership-guard error
\* has sent no request.
C6_GuardErrorSentNothing ==
    raised \in GuardErrors => sent = <<>>

\* C6 (amended): a missing-group-id failure has sent nothing; a not-joined or
\* not-owner failure has sent the joined-groups GET and only GET requests,
\* never a POST or DELETE.
C6_GuardErrorSentOnlyLookups ==
    /\ raised = MissingGroupId => sent = <<>>
    /\ raised \in {NotAJoinedGroup, NotGroupOwner} =>
          /\ get_groups \in Range(sent)
          /\ \A i \in DOMAIN sent : sent[i].method = "GET"
    /\ raised = NotGroupOwner => get_group(resolved) \in Range(sent)

C6_Witness ==
    /\ op = "set_trx_auth"
    /\ raised = NotGroupOwner
    /\ sent = <<get_groups, get_groups, get_group(resolved)>>

\* C7 (as claimed): an operation that fails local parameter validation has
\* sent no request.
C7_ValidationErrorSentNothing ==
    raised \in ValidationErrors => sent = <<>>

\* C7 (amended): an operation that fails local parameter validation has sent
\* no POST or DELETE; a role or get_trx_auth failure has sent nothing, an
\* owner-gated operation has sent exactly the guard's three GET lookups, and
\* update_consensus exactly its two consensus GETs.
C7_ValidationErrorSentOnlyLookups ==
    raised \in ValidationErrors =>
        /\ \A i \in DOMAIN sent : sent[i].method = "GET"
        /\ op \in TokenOps \cup {"get_trx_auth"} => sent = <<>>
        /\ op \in OwnerOps =>
              sent = <<get_groups, get_groups, get_group(resolved)>>
        /\ op = "update_consensus" => sent = get_consensus_reqs(resolved)

C7_Witness ==
    /\ op = "update_appconfig"
    /\ raised = BadAction
    /\ sent = <<get_groups, get_groups, get_group(resolved)>>

\* C8: the facade's group id always equals the API layer's, so a group_info
\* call without an explicit group id targets the group assigned last.
C8_FacadeInSync ==
    /\ facade_group_id = api_group_id
    /\ (op = "group_info" /\ ~Truthy(args.group_id) /\ raised = NoErr) =>
          /\ resolved = facade_group_id
          /\ get_group(facade_group_id) \in Range(sent)

C8_Witness ==
    /\ op = "group_info"
    /\ args.group_id = None
    /\ raised = NoErr
    /\ facade_group_id \in Groups
    /\ sent[2] = get_group(facade_group_id)

\* C9: only the group_id setter changes the current group selection; every
\* API operation, leave_group and clear_group included, leaves it as it was.
C9_OnlySetterChangesSelection ==
    [][op' /= "set_group_id" =>
          /\ api_group_id' = api_group_id
          /\ facade_group_id' = facade_group_id]_vars

C9_Witness ==
    /\ op = "leave_group"
    /\ raised = NoErr
    /\ Truthy(api_group_id)
    /\ resolved = api_group_id
    /\ resolved \notin node_joined

\* the positions of the failed entries of a queue
FailedAt(queue) == {i \in DOMAIN queue : queue[i].State = "FAIL"}

\* ids are the TrxIds of the failed entries of queue, in queue order
IsFailedIdsOf(ids, queue) ==
    /\ Len(ids) = Cardinality(FailedAt(queue))
    /\ \E f \in [DOMAIN ids -> FailedAt(queue)] :
          /\ \A a, b \in DOMAIN ids : a < b => f[a] < f[b]
          /\ \A a \in DOMAIN ids : ids[a] = queue[f[a]].TrxId

\* C10: autoack on a resolved group fetches its publish queue; with no FAIL
\* entry it returns success and sends no ack; otherwise it sends exactly one
\* ack POST whose trx_ids are the TrxIds of the FAIL entries in queue order.
\* ack of an empty list sends nothing and returns success.
C10_AutoackAcksFailed ==
    /\ (op = "autoack" /\ raised /= MissingGroupId /\ node_resp.data = "list") =>
          /\ raised = NoErr
          /\ sent[1] = get_pubqueue(resolved)
          /\ IF FailedAt(node_resp.queue) = {}
             THEN sent = <<get_pubqueue(resolved)>> /\ returned = "True"
             ELSE /\ Len(sent) = 2
                  /\ sent[2].method = "POST"
                  /\ sent[2].path = "/api/v1/trx/ack"
                  /\ IsFailedIdsOf(sent[2].body, node_resp.queue)
    /\ (op = "ack" /\ args.trx_ids = <<>>) =>
          sent = <<>> /\ returned = "True" /\ raised = NoErr

C10_Witness ==
    /\ op = "autoack"
    /\ Len(node_resp.queue) = 3
    /\ Cardinality(FailedAt(node_resp.queue)) = 2
    /\ node_resp.queue[2].State = "SUCCESS"
    /\ Len(sent) = 2
    /\ sent[2].body = <<node_resp.queue[1].TrxId, node_resp.queue[3].TrxId>>

\* ---------------------------------------------------------------------
\* C11: trx(trx_id) with a falsy trx_id returns the empty structure and sends
\* nothing.  Otherwise, once the group id resolves, its first request is the
\* content listing anchored at trx_id with num=1 and include_start_trx=true;
\* the by-id endpoint is requested only after that listing and only if the
\* listing came back empty, never when it holds an entry.
IsByIdReq(r) == r.path = "/api/v1/trx/{group_id}/{trx_id}"

C11_TrxListingBeforeById ==
    op = "trx" =>
        /\ ~Truthy(args.trx_id) =>
              returned = <<>> /\ sent = <<>> /\ raised = NoErr
        /\ (Truthy(args.trx_id) /\ raised /= MissingGroupId) =>
              /\ sent /= <<>>
              /\ sent[1].method = "GET"
              /\ sent[1].path = "/app/api/v1/group/{group_id}/content"
              /\ sent[1].gid = resolved
              /\ sent[1].body = <<"num=1", "reverse=false",
                                  "start_trx=" \o args.trx_id,
                                  "include_start_trx=true">>
        /\ \A i \in DOMAIN sent :
              IsByIdReq(sent[i]) => i > 1 /\ node_resp.content = <<>>
        /\ node_resp.content /= <<>> => \A i \in DOMAIN sent : ~IsByIdReq(sent[i])

\* the listing came back empty and the by-id endpoint was asked after it
C11_Witness ==
    /\ op = "trx"
    /\ Truthy(args.trx_id)
    /\ node_resp.content = <<>>
    /\ Len(sent) = 3
    /\ IsByIdReq(sent[3])
    /\ raised = NoErr

\* ---------------------------------------------------------------------
\* C12: get_content returns a list as long as the node's listing and in the
\* same order; an entry whose Data is base64 of JSON carries the decoded value,
\* an entry whose Data is missing or malformed is returned unchanged, and no
\* decoding failure makes the call raise or drops an entry.
IsB64Json(d) == Len(d) >= 2 /\ d[1] = "b64" /\ d[2] = "json"

C12_GetContentKeepsEveryEntry ==
    op = "get_content" =>
        /\ raised \in {NoErr, MissingGroupId}
        /\ raised = NoErr =>
              /\ Len(returned) = Len(node_resp.content)
              /\ \A i \in DOMAIN returned :
                    LET e == node_resp.content[i]
                    IN  /\ returned[i].TrxId = e.TrxId
                        /\ IF IsB64Json(e.Data)
                           THEN B64Json(returned[i].Data) = e.Data
                           ELSE returned[i] = e

\* a malformed entry is followed by a well encoded one, which is decoded
C12_Witness ==
    /\ op = "get_content"
    /\ raised = NoErr
    /\ Len(returned) = 2
    /\ node_resp.content[1].Data = <<"hello">>
    /\ returned[1] = node_resp.content[1]
    /\ IsB64Json(node_resp.content[2].Data)
    /\ returned[2].Data = <<"hello">>

\* ---------------------------------------------------------------------
\* C13: whenever update_consensus is given an integer trx_epoch_tick below
\* 500, agreement_tick_length below 1000 or agreement_tick_count below 10
\* (0 included), the call fails with an invalid-argument error and sends no
\* consensus-update POST.
IsConsensusPost(r) == r.method = "POST" /\ r.path = "/api/v1/group/updconsensus"
Below(o, min) == o /= <<>> /\ o[1] < min
BoundErrors == {EpochTickTooSmall, TickLengthTooSmall, TickCountTooSmall}

C13_BelowMinimumRejected ==
    (/\ op = "update_consensus"
     /\ raised /= MissingGroupId
     /\ \/ Below(args.nums[2], TRX_EPOCH_TICK_MIN)
        \/ Below(args.nums[3], AGREEMENT_TICK_LENGTH_MIN)
        \/ Below(args.nums[4], AGREEMENT_TICK_COUNT_MIN))
    => /\ raised \in BoundErrors
       /\ \A i \in DOMAIN sent : ~IsConsensusPost(sent[i])

\* ---------------------------------------------------------------------
\* C14: update_consensus returns "Nothing to update" and sends no POST
\* whenever the payload it computes equals the existing configuration; in
\* particular a call with no overrides never sends an update POST.
NoOverrides ==
    args.nums = <<<<>>, <<>>, <<>>, <<>>>> /\ args.producer_pubkey = <<>>
SuppliedOverrides ==
    [start_from_epoch |-> args.nums[1], trx_epoch_tick |-> args.nums[2],
     agreement_tick_length |-> args.nums[3],
     agreement_tick_count |-> args.nums[4],
     producer_pubkey |-> args.producer_pubkey]

C14_NoChangeNoPost ==
    (op = "update_consensus" /\ raised = NoErr) =>
        /\ consensus_payload(SuppliedOverrides, node_resp.req)
               = consensus_exist(node_resp.req)
           => /\ returned = "Nothing to update"
              /\ \A i \in DOMAIN sent : ~IsConsensusPost(sent[i])
        /\ NoOverrides => \A i \in DOMAIN sent : ~IsConsensusPost(sent[i])

\* ---------------------------------------------------------------------
\* C15: in the payload update_consensus sends, every field the caller did
\* not supply carries the prior value the node reports, and the documented
\* minimum (1, 500, 1000, 10, no producers) only when the node reports none.
PriorOr(o, d) == IF o /= <<>> THEN o[1] ELSE d

C15_UnsuppliedKeepsPrior ==
    (op = "update_consensus" /\ raised = NoErr) =>
        \A i \in DOMAIN sent :
            IsConsensusPost(sent[i]) =>
                LET req == node_resp.req
                    n == sent[i].nums
                IN  /\ args.nums[1] = <<>> => n[1] = PriorOr(req.StartFromEpoch, 1)
                    /\ args.nums[2] = <<>> =>
                          n[2] = PriorOr(req.TrxEpochTickLenInMs, TRX_EPOCH_TICK_MIN)
                    /\ args.nums[3] = <<>> =>
                          n[3] = PriorOr(req.AgreementTickLenInMs,
                                         AGREEMENT_TICK_LENGTH_MIN)
                    /\ args.nums[4] = <<>> =>
                          n[4] = PriorOr(req.AgreementTickCount,
                                         AGREEMENT_TICK_COUNT_MIN)
                    /\ args.producer_pubkey = <<>> =>
                          sent[i].body = req.ProducerPubkeyList

\* ---------------------------------------------------------------------
\* C16: add_user first probes the announce status.  If the probe answers
\* Result = "APPROVED" the call returns that status and sends no approval
\* POST.  If it answers anything else, or fails with any error (a missing
\* group id included), the error is not raised: the call goes on to the
\* owner-checked approval with action "add".
IsProbe(r) == r.method = "GET" /\ r.path = "/api/v1/group/{group_id}/announced/user/{pubkey}"
ProbeAnswered ==
    sent /= <<>> /\ IsProbe(sent[1]) /\ node_resp.status /= ProbeRaises
ApprovalGroup == Or(args.group_id, api_group_id)

C16_AddUserProbeThenApprove ==
    op = "add_user" =>
        IF ProbeAnswered /\ node_resp.status = "APPROVED"
        THEN /\ raised = NoErr
             /\ returned = "status"
             /\ Len(sent) = 1
        ELSE /\ raised \in GuardErrors \cup {NoErr}
             /\ raised /= ProbeRaises
             /\ raised = MissingGroupId <=> ~Truthy(ApprovalGroup)
             /\ (/\ Truthy(ApprovalGroup)
                 /\ ApprovalGroup \in node_joined
                 /\ IsOwnerOf(node_resp.info))
                => /\ raised = NoErr
                   /\ sent[Len(sent)] = post_user(ApprovalGroup, <<"add">>)
                   /\ get_group(ApprovalGroup) \in Range(sent)
             /\ raised /= NoErr => \A i \in DOMAIN sent : sent[i].method = "GET"

\* the probe failed for want of a selected group, and the approval of the
\* group given in the call went through
C16_Witness ==
    /\ op = "add_user"
    /\ ~Truthy(api_group_id)
    /\ Truthy(args.group_id)
    /\ raised = NoErr
    /\ sent[Len(sent)] = post_user(args.group_id, <<"add">>)

\* ---------------------------------------------------------------------
\* C17: new_post fails with ParamValueError whenever content is empty or
\* None, images attached or not.  With a non-empty content and no images it
\* returns {type: "Create", object: {type: "Note", content, id}}, the id
\* being post_id when one is supplied and a fresh id otherwise (and the
\* object carries a name exactly when a name is supplied).
C17_NewPostNeedsContent ==
    op = "new_post" =>
        /\ args.content \in {None, ""} =>
              /\ raised /= NoErr
              /\ ExcClass(raised) = "ParamValueError"
        /\ (args.content \notin {None, ""} /\ args.images = <<>>) =>
              /\ raised = NoErr
              /\ returned.type = "Create"
              /\ DOMAIN returned = {"type", "object"}
              /\ returned.object.type = "Note"
              /\ returned.object.content = args.content
              /\ IF args.post_id \in {None, ""}
                 THEN returned.object.id \in Uuids
                 ELSE returned.object.id = args.post_id
              /\ DOMAIN returned.object =
                    {"type", "content", "id"}
                    \cup (IF args.name \in {None, ""} THEN {} ELSE {"name"})

\* content is None and images are attached: the call fails all the same
C17_Witness ==
    /\ op = "new_post"
    /\ args.content = None
    /\ Len(args.images) = 2
    /\ raised = ContentEmpty

\* ---------------------------------------------------------------------
\* C18: pack_images on n >= 1 inputs processes only the first min(n, 4) of
\* them, gives each one it recompresses the budget floor(200 / min(n, 4)) KB
\* (50 KB for n >= 4), and budget times processed count never exceeds 200 KB.
C18_PackImagesBudget ==
    (op = "pack_images" /\ Len(args.images) >= 1 /\ raised = NoErr) =>
        LET n == Len(args.images)
            m == IF n < 4 THEN n ELSE 4
            budget == 200 \div m
        IN  /\ Len(returned) = m
            /\ \A i \in 1..m :
                  /\ returned[i].input = args.images[i]
                  /\ args.images[i].kind = "bytes" =>
                        /\ returned[i].budget = <<budget>>
                        /\ returned[i].kb < budget
            /\ n >= 4 => budget = 50
            /\ budget * Len(returned) <= 200

\* five images are given, four are packed, each with 50 KB
C18_Witness ==
    /\ op = "pack_images"
    /\ Len(args.images) = 5
    /\ raised = NoErr
    /\ Len(returned) = 4
    /\ \A i \in 1..4 : returned[i].budget = <<50>>

\* ---------------------------------------------------------------------
\* C19: the list endpoints default to the empty sequence.  groups() returns
\* [] when the response is null or has no or a null "groups"; pubqueue()
\* returns the empty sequence when the response has no "Data" key or a null
\* "Data", so that autoack on such a response acknowledges nothing and does
\* not fail.
IsAckPost(r) == r.method = "POST" /\ r.path = "/api/v1/trx/ack"

C19_ListsDefaultToEmpty ==
    /\ (op = "groups" /\ node_resp.data /= "list") => returned = EmptyList
    /\ (/\ op \in {"pubqueue", "autoack"}
        /\ node_resp.data \in {"null", "absent"}
        /\ Truthy(Or(args.group_id, api_group_id)))
       => /\ raised = NoErr
          /\ op = "pubqueue" => returned = EmptyList
          /\ \A i \in DOMAIN sent : ~IsAckPost(sent[i])

\* ---------------------------------------------------------------------
\* C20: for a valid role and a group id that resolves, revoke_token sends
\* exactly one POST to /app/api/v1/token/revoke and remove_token exactly one
\* DELETE to /app/api/v1/token; each returns the node's response and neither
\* sends the other's request.
ValidTokenCall ==
    /\ Or(args.role, "node") \in {"node", "chain"}
    /\ Truthy(Or(args.group_id, api_group_id))

C20_RevokeAndRemoveDistinct ==
    /\ (op = "revoke_token" /\ ValidTokenCall) =>
          /\ raised = NoErr
          /\ returned = "resp"
          /\ Len(sent) = 1
          /\ sent[1].method = "POST"
          /\ sent[1].path = "/app/api/v1/token/revoke"
    /\ (op = "remove_token" /\ ValidTokenCall) =>
          /\ raised = NoErr
          /\ returned = "resp"
          /\ Len(sent) = 1
          /\ sent[1].method = "DELETE"
          /\ sent[1].path = "/app/api/v1/token"

\* ---------------------------------------------------------------------
\* C21: no group-scoped operation sends a request whose group id is empty
\* or null: every one of them, add_producer and remove_producer included,
\* resolves the group id through the guard first, so that with no explicit
\* group id and no current group it fails with the missing-group-id error
\* and sends nothing.
AddressesNoGroup(r) == r.path \in {"/api/v1/groups", "/api/v1/trx/ack"}

C21_NoRequestWithoutGroupId ==
    GroupScopedCall =>
        /\ \A i \in DOMAIN sent :
              ~AddressesNoGroup(sent[i]) => Truthy(sent[i].gid)
        /\ ~Truthy(Or(args.group_id, api_group_id)) =>
              raised = MissingGroupId /\ sent = <<>>

\* ---------------------------------------------------------------------
\* C22: _check_trx_type gives the same result for all inputs that differ
\* only in letter case; if the uppercased input is one of the seven trx
\* types the result is that uppercase value, otherwise the call fails with
\* ParamValueError; and checking a successful result again returns it.
SameButCase(a, b) ==
    /\ Len(a) = Len(b)
    /\ \A i \in DOMAIN a : LowerChar(a[i]) = LowerChar(b[i])
IsUpperOf(u, s) ==
    /\ SameButCase(u, s)
    /\ \A i \in DOMAIN u : u[i] = UpperChar(u[i])

C22_CheckTrxTypeIgnoresCase ==
    op = "_check_trx_type" =>
        /\ \A t \in TrxTypeInputs :
              SameButCase(t, args.chars) =>
                  /\ check_trx_type(t).err = raised
                  /\ raised = NoErr => check_trx_type(t).val = returned
        /\ IF \E u \in TRX_TYPES : IsUpperOf(u, args.chars)
           THEN /\ raised = NoErr
                /\ returned \in TRX_TYPES
                /\ IsUpperOf(returned, args.chars)
           ELSE /\ raised = BadTrxType
                /\ ExcClass(raised) = "ParamValueError"
        /\ raised = NoErr =>
              check_trx_type(returned) = [err |-> NoErr, val |-> returned]

\* a mixed-case spelling of a trx type was accepted as its uppercase value
C22_Witness ==
    /\ op = "_check_trx_type"
    /\ args.chars = <<"P","o","s","T">>
    /\ raised = NoErr
    /\ returned = <<"P","O","S","T">>

\* ---------------------------------------------------------------------
\* C23: _check_trx_mode turns every case variant of "alw" or "allow" into
\* "alw", every case variant of "dny" or "deny" into "dny", and fails with
\* ParamValueError on every other input; so set_trx_auth only ever sends
\* trx_auth_mode "follow_alw_list" or "follow_dny_list".
IsVariantOf(x, words) == \E w \in words : SameButCase(x, w)
AllowWords == {<<"a","l","w">>, <<"a","l","l","o","w">>}
DenyWords == {<<"d","n","y">>, <<"d","e","n","y">>}
IsTrxAuthPost(r) ==
    /\ r.method = "POST"
    /\ r.path = "/api/v1/group/chainconfig"
    /\ r.body /= <<>>
    /\ r.body[1] = "set_trx_auth_mode"

C23_CheckTrxModeNormalizes ==
    /\ op = "_check_trx_mode" =>
          CASE IsVariantOf(args.chars, AllowWords) ->
                  raised = NoErr /\ returned = <<"a","l","w">>
            [] IsVariantOf(args.chars, DenyWords) ->
                  raised = NoErr /\ returned = <<"d","n","y">>
            [] OTHER ->
                  raised = BadMode /\ ExcClass(raised) = "ParamValueError"
    /\ \A i \in DOMAIN sent :
          IsTrxAuthPost(sent[i]) =>
              /\ sent[i].body[3] \in {"follow_alw_list", "follow_dny_list"}
              /\ sent[i].body[3] = "follow_alw_list"
                    <=> IsVariantOf(args.chars, AllowWords)
              /\ sent[i].body[3] = "follow_dny_list"
                    <=> IsVariantOf(args.chars, DenyWords)

\* set_trx_auth was called with mode "Allow" and sent follow_alw_list
C23_Witness ==
    /\ op = "set_trx_auth"
    /\ args.chars = <<"A","l","l","o","w">>
    /\ raised = NoErr
    /\ IsTrxAuthPost(sent[Len(sent)])
    /\ sent[Len(sent)].body[3] = "follow_alw_list"

\* ---------------------------------------------------------------------
\* C24: whenever trx(trx_id) with a non-empty trx_id returns a transaction
\* of the anchored content page, that transaction's TrxId is the requested
\* trx_id: the first entry of the page is never returned when it is a
\* different transaction.
C24_TrxReturnsTheRequestedTrx ==
    (/\ op = "trx"
     /\ Truthy(args.trx_id)
     /\ raised = NoErr
     /\ node_resp.content /= <<>>)
    => returned.TrxId = args.trx_id

\* ---------------------------------------------------------------------
\* C25: in add_user(pubkey, group_id) the announce-status probe addresses
\* the group the approval would be issued for, also when the explicit
\* group_id differs from the current group.
C25_ProbeAndApprovalSameGroup ==
    op = "add_user" =>
        \A i \in DOMAIN sent :
            IsProbe(sent[i]) => sent[i].gid = ApprovalGroup

\* ---------------------------------------------------------------------
\* C26: every payload update_consensus sends has trx_epoch_tick >= 500,
\* agreement_tick_Length >= 1000 and agreement_tick_count >= 10, whatever
\* the caller's overrides and the prior values the node reports.
C26_SentPayloadWithinBounds ==
    op = "update_consensus" =>
        \A i \in DOMAIN sent :
            IsConsensusPost(sent[i]) =>
                /\ sent[i].nums[2] >= 500
                /\ sent[i].nums[3] >= 1000
                /\ sent[i].nums[4] >= 10

====
